---------------------------- MODULE Spec2Model ----------------------------
(***************************************************************************)
(* Model of templatetag_handlebars.py: the verbatim scanner               *)
(* (verbatim_tags), the two node classes (VerbatimNode, HandlebarsNode)   *)
(* and the entry points verbatim and tplhandlebars.                        *)
(*                                                                         *)
(* Python strings are sequences of one-character strings, so that split,   *)
(* slicing and concatenation are computed and not assumed.                  *)
(***************************************************************************)
EXTENDS Integers, Sequences, FiniteSets, TLC

(***************************************************************************)
(* Bounds of the model.                                                    *)
(***************************************************************************)
\* longest enumerated token queue (the documented examples come on top)
MaxLen == 3
\* longest enumerated token queue where the tag's arguments are varied
MaxArgLen == 1

(***************************************************************************)
(* String literals of the source.                                          *)
(***************************************************************************)
endverbatim == <<"e", "n", "d", "v", "e", "r", "b", "a", "t", "i", "m">>
endtplhandlebars == <<"e", "n", "d", "t", "p", "l", "h", "a", "n", "d", "l", "e", "b", "a", "r", "s">>
open_braces == <<"{", "{">>
close_braces == <<"}", "}">>
ember_id_attr == <<"d", "a", "t", "a", "-", "t", "e", "m", "p", "l", "a", "t", "e", "-", "n", "a", "m", "e">>
ember_script_type == <<"t", "e", "x", "t", "/", "x", "-", "h", "a", "n", "d", "l", "e", "b", "a", "r", "s">>
plain_id_attr == <<"i", "d">>
plain_script_type == <<"t", "e", "x", "t", "/", "x", "-", "h", "a", "n", "d", "l", "e", "b", "a", "r", "s", "-", "t", "e", "m", "p", "l", "a", "t", "e">>
head_open == <<"<", "s", "c", "r", "i", "p", "t", " ", "t", "y", "p", "e", "=", "\"">>
head_mid1 == <<"\"", " ">>
head_mid2 == <<"=", "\"">>
head_close == <<"\"", ">">>
layout_indent == <<"\n", " ", " ", " ", " ", " ", " ", " ", " ">>
script_close == <<"<", "/", "s", "c", "r", "i", "p", "t", ">">>
requires_msg == <<" ", "t", "a", "g", " ", "r", "e", "q", "u", "i", "r", "e", "s", " ", "e", "x", "a", "c", "t", "l", "y", " ", "o", "n", "e", " ", "a", "r", "g", "u", "m", "e", "n", "t">>

(***************************************************************************)
(* The host engine, as far as the source uses it: token types, the         *)
(* registered tags, their compile functions and the nodes they return.     *)
(***************************************************************************)
TokenType == [TEXT |-> "TEXT", VAR |-> "VAR", BLOCK |-> "BLOCK", COMMENT |-> "COMMENT"]

Token(type, contents) == [token_type |-> type, contents |-> contents]

csrf_token == <<"c", "s", "r", "f", "_", "t", "o", "k", "e", "n">>
url == <<"u", "r", "l">>
bogus_csrf == <<"b", "o", "g", "u", "s", " ", "c", "s", "r", "f", "_", "t", "o", "k", "e", "n">>

\* parser.tags: the names the host has a compile function for
tags == {csrf_token, url}

\* str.split(): the whitespace-delimited words of s
RECURSIVE split_from(_, _, _)
split_from(s, i, word) ==
  LET flush == IF word = <<>> THEN <<>> ELSE <<word>> IN
  IF i > Len(s) THEN flush
  ELSE IF s[i] = " " THEN flush \o split_from(s, i + 1, <<>>)
  ELSE split_from(s, i + 1, Append(word, s[i]))

split(s) == split_from(s, 1, <<>>)

\* Token.split_contents(): split on whitespace outside double quotes
RECURSIVE split_contents_from(_, _, _, _)
split_contents_from(s, i, word, quoted) ==
  LET flush == IF word = <<>> THEN <<>> ELSE <<word>> IN
  IF i > Len(s) THEN flush
  ELSE IF s[i] = " " /\ ~quoted THEN flush \o split_contents_from(s, i + 1, <<>>, FALSE)
  ELSE split_contents_from(s, i + 1, Append(word, s[i]),
                           IF s[i] = "\"" THEN ~quoted ELSE quoted)

split_contents(token) == split_contents_from(token.contents, 1, <<>>, FALSE)

\* compile_func(parser, token) raises TemplateSyntaxError: {% url %} without
\* a view name does, {% csrf_token %} never does
compile_func_raises(token) == split(token.contents) = <<url>>

\* the node compile_func(parser, token) returns
compile_func(token) == [tag |-> split(token.contents)[1], contents |-> token.contents]

\* bit.render(context) of a compiled node: the host's output for that tag in
\* that context
node_render(n, context) == <<"[">> \o n.contents \o <<"|">> \o context \o <<"]">>

(***************************************************************************)
(* Exceptions.                                                             *)
(***************************************************************************)
IndexError == [exc |-> "IndexError", raised_by |-> "pop"]
UnboundLocalError == [exc |-> "UnboundLocalError", raised_by |-> "node"]
TemplateSyntaxError(by, token) == [exc |-> "TemplateSyntaxError", raised_by |-> by, token |-> token]
ArgumentError(msg) == [exc |-> "TemplateSyntaxError", raised_by |-> "tplhandlebars", msg |-> msg]


(***************************************************************************)
(* verbatim_tags: one pass of the while loop.                              *)
(***************************************************************************)
\* the local variable node, unbound until its first assignment
Unbound == [bound |-> FALSE]
Bound(n) == [bound |-> TRUE, value |-> n]

\* entries of text_and_nodes: a string, or a node a compile function returned
str_bit(s) == [kind |-> "str", text |-> s]
node_bit(n) == [kind |-> "node", node |-> n]

\* mutant of is_endtag: only a BLOCK token closes
is_endtag_block_only(token, endtagname) ==
  token.token_type = TokenType.BLOCK /\ token.contents = endtagname

\* token.contents == endtagname
is_endtag(token, endtagname) == token.contents = endtagname

\* a VAR token: '{{', the contents, and after the elif chain '}}'
var_bits(token) == <<str_bit(open_braces), str_bit(token.contents), str_bit(close_braces)>>

\* a TEXT token: the contents
text_bits(token) == <<str_bit(token.contents)>>

\* what a branch of the loop body does: raise, or append bits and go on
Raise(error, node, hook_calls, compile_calls) ==
  [raised |-> TRUE, error |-> error, bits |-> <<>>, node |-> node,
   hook_calls |-> hook_calls, compile_calls |-> compile_calls]
Go(bits, node, hook_calls, compile_calls) ==
  [raised |-> FALSE, error |-> [exc |-> "none"], bits |-> bits, node |-> node,
   hook_calls |-> hook_calls, compile_calls |-> compile_calls]

\* mutant of compile_failed: the error is dropped when the hook does not recover
compile_failed_swallow(token, node, recovered) ==
  IF ~recovered THEN Go(<<>>, node, 1, 1)
  ELSE IF ~node.bound THEN Raise(UnboundLocalError, node, 1, 1)
  ELSE Go(<<node_bit(node.value)>>, node, 1, 1)

\* except TemplateSyntaxError as e: the hook decides, then node is appended
compile_failed(token, node, recovered) ==
  IF ~recovered THEN Raise(TemplateSyntaxError("compile_func", token), node, 1, 1)
  ELSE IF ~node.bound THEN Raise(UnboundLocalError, node, 1, 1)
  ELSE Go(<<node_bit(node.value)>>, node, 1, 1)

\* mutant of block_branch: the command is the last word of the contents
block_branch_last_word(token, node, recovered) ==
  IF split(token.contents) = <<>>
  THEN Raise(TemplateSyntaxError("empty_block_tag", token), node, 0, 0)
  ELSE LET command == split(token.contents)[Len(split(token.contents))] IN
       IF command \notin tags
       THEN Raise(TemplateSyntaxError("invalid_block_tag", token), node, 0, 0)
       ELSE IF compile_func_raises(token)
       THEN compile_failed(token, node, recovered)
       ELSE Go(<<node_bit(compile_func(token))>>, Bound(compile_func(token)), 0, 1)

\* a BLOCK token; recovered is what parser.compile_function_error answers
block_branch(token, node, recovered) ==
  IF split(token.contents) = <<>>
  THEN Raise(TemplateSyntaxError("empty_block_tag", token), node, 0, 0)
  ELSE LET command == split(token.contents)[1] IN
       IF command \notin tags
       THEN Raise(TemplateSyntaxError("invalid_block_tag", token), node, 0, 0)
       ELSE IF compile_func_raises(token)
       THEN compile_failed(token, node, recovered)
       ELSE Go(<<node_bit(compile_func(token))>>, Bound(compile_func(token)), 0, 1)

\* mutant of branch: a COMMENT token is appended like a TEXT token
branch_comment_as_text(token, node, recovered) ==
  CASE token.token_type = TokenType.VAR -> Go(var_bits(token), node, 0, 0)
    [] token.token_type = TokenType.BLOCK -> block_branch(token, node, recovered)
    [] OTHER -> Go(text_bits(token), node, 0, 0)

\* the if / elif chain on token.token_type; a COMMENT token matches no branch
branch(token, node, recovered) ==
  CASE token.token_type = TokenType.VAR -> Go(var_bits(token), node, 0, 0)
    [] token.token_type = TokenType.TEXT -> Go(text_bits(token), node, 0, 0)
    [] token.token_type = TokenType.BLOCK -> block_branch(token, node, recovered)
    [] OTHER -> Go(<<>>, node, 0, 0)

\* mutant of pop0: parser.tokens.pop()
pop0_last(tokens) ==
  [token |-> tokens[Len(tokens)], tokens |-> SubSeq(tokens, 1, Len(tokens) - 1)]

\* mutant of pop0: parser.tokens[0], the token is not removed
pop0_peek(tokens) == [token |-> Head(tokens), tokens |-> tokens]

\* parser.tokens.pop(0) on a queue that is not empty: the token returned and
\* the queue left
pop0(tokens) == [token |-> Head(tokens), tokens |-> Tail(tokens)]

\* one pass: pop, test for the end tag, branch
loop_body(tokens, text_and_nodes, node, endtagname, recovered) ==
  IF tokens = <<>>
  THEN [flow |-> "raise", error |-> IndexError, tokens |-> tokens,
        text_and_nodes |-> text_and_nodes, node |-> node,
        popped |-> <<>>, hook_calls |-> 0, compile_calls |-> 0]
  ELSE LET token == pop0(tokens).token
           b == branch(token, node, recovered)
       IN IF is_endtag(token, endtagname)
          THEN [flow |-> "break", error |-> [exc |-> "none"], tokens |-> pop0(tokens).tokens,
                text_and_nodes |-> text_and_nodes, node |-> node,
                popped |-> <<token>>, hook_calls |-> 0, compile_calls |-> 0]
          ELSE [flow |-> IF b.raised THEN "raise" ELSE "loop", error |-> b.error,
                tokens |-> pop0(tokens).tokens,
                text_and_nodes |-> text_and_nodes \o b.bits, node |-> b.node,
                popped |-> <<token>>, hook_calls |-> b.hook_calls,
                compile_calls |-> b.compile_calls]

\* the whole loop on a queue, the hook answering as in answers, one answer
\* per call
RECURSIVE run_loop(_, _, _, _, _)
run_loop(tokens, text_and_nodes, node, e, answers) ==
  LET r == loop_body(tokens, text_and_nodes, node, e,
                     IF answers = <<>> THEN FALSE ELSE Head(answers))
  IN IF r.flow = "loop"
     THEN run_loop(r.tokens, r.text_and_nodes, r.node, e,
                   IF r.hook_calls > 0 /\ answers # <<>> THEN Tail(answers) ELSE answers)
     ELSE [flow |-> r.flow, error |-> r.error, text_and_nodes |-> r.text_and_nodes]

(***************************************************************************)
(* The node classes.                                                       *)
(***************************************************************************)
VerbatimNode(text_and_nodes) == [class |-> "VerbatimNode", text_and_nodes |-> text_and_nodes]

HandlebarsNode(template_id, text_and_nodes) ==
  [class |-> "HandlebarsNode", template_id |-> template_id, text_and_nodes |-> text_and_nodes]

\* mutant of render_bits: output = bit + output
RECURSIVE render_bits_prepend(_, _, _)
render_bits_prepend(bits, context, acc) ==
  IF bits = <<>> THEN acc
  ELSE LET bit == Head(bits) IN
       render_bits_prepend(Tail(bits), context,
         IF bit.kind = "str"
         THEN [output |-> bit.text \o acc.output, calls |-> acc.calls]
         ELSE [output |-> node_render(bit.node, context) \o acc.output,
               calls |-> Append(acc.calls, [node |-> bit.node, context |-> context])])

\* VerbatimNode.render: the for loop over self.text_and_nodes; calls lists the
\* bit.render(context) calls made
RECURSIVE render_bits(_, _, _)
render_bits(bits, context, acc) ==
  IF bits = <<>> THEN acc
  ELSE LET bit == Head(bits) IN
       render_bits(Tail(bits), context,
         IF bit.kind = "str"
         THEN [output |-> acc.output \o bit.text, calls |-> acc.calls]
         ELSE [output |-> acc.output \o node_render(bit.node, context),
               calls |-> Append(acc.calls, [node |-> bit.node, context |-> context])])

VerbatimNode_render(self, context) ==
  render_bits(self.text_and_nodes, context, [output |-> <<>>, calls |-> <<>>])

\* settings.USE_EMBER_STYLE_ATTRS, possibly not set
Settings == {"unset", "True", "False"}

\* mutant of use_ember_style_attrs: the default of getattr is True
use_ember_default_true(setting) == (IF setting = "unset" THEN "True" ELSE setting) = "True"

\* getattr(settings, 'USE_EMBER_STYLE_ATTRS', False) is True
use_ember_style_attrs(setting) == (IF setting = "unset" THEN "False" ELSE setting) = "True"

id_attr(setting) == IF use_ember_style_attrs(setting) THEN ember_id_attr ELSE plain_id_attr

script_type(setting) == IF use_ember_style_attrs(setting) THEN ember_script_type ELSE plain_script_type

head_script(self, setting) ==
  head_open \o script_type(setting) \o head_mid1 \o id_attr(setting) \o head_mid2
    \o self.template_id \o head_close

HandlebarsNode_render(self, context, setting) ==
  LET super == VerbatimNode_render(self, context) IN
  [output |-> layout_indent \o head_script(self, setting) \o layout_indent
                \o super.output \o layout_indent \o script_close,
   calls |-> super.calls]

node_class_render(self, context, setting) ==
  IF self.class = "HandlebarsNode" THEN HandlebarsNode_render(self, context, setting)
  ELSE VerbatimNode_render(self, context)

\* stripquote(s): s[1:-1] if s[:1] == '"' else s
stripquote(s) == IF Len(s) >= 1 /\ s[1] = "\"" THEN SubSeq(s, 2, Len(s) - 1) ELSE s

(***************************************************************************)
(* The entry points, after the scan.                                       *)
(***************************************************************************)
tag_verbatim == <<"v", "e", "r", "b", "a", "t", "i", "m">>
tag_tplhandlebars == <<"t", "p", "l", "h", "a", "n", "d", "l", "e", "b", "a", "r", "s">>
tag_tplhandlebars_t == <<"t", "p", "l", "h", "a", "n", "d", "l", "e", "b", "a", "r", "s", " ", "\"", "t", "\"">>
tag_tplhandlebars_t_u == <<"t", "p", "l", "h", "a", "n", "d", "l", "e", "b", "a", "r", "s", " ", "t", " ", "u">>

\* the endtagname each entry point passes to verbatim_tags
endtagname(e) == IF e = "verbatim" THEN endverbatim ELSE endtplhandlebars

\* tokens[:2]
first_two(tks) == SubSeq(tks, 1, IF Len(tks) < 2 THEN Len(tks) ELSE 2)

\* tplhandlebars after the scan: unpack tag_name, template_id or raise
tplhandlebars_return(token, text_and_nodes) ==
  LET tks == split_contents(token) IN
  IF Len(first_two(tks)) # 2
  THEN [kind |-> "error", error |-> ArgumentError(tks[1] \o requires_msg)]
  ELSE [kind |-> "node",
        node |-> HandlebarsNode(stripquote(first_two(tks)[2]), text_and_nodes)]

\* verbatim after the scan
verbatim_return(text_and_nodes) == [kind |-> "node", node |-> VerbatimNode(text_and_nodes)]

(***************************************************************************)
(* Inputs.                                                                 *)
(***************************************************************************)
\* the tokens the host tokenizer may put in the queue of an entry point
Tokens(e) ==
  {Token(TokenType.TEXT, <<"a">>), Token(TokenType.TEXT, <<"b">>),
   Token(TokenType.TEXT, endtagname(e)),
   Token(TokenType.VAR, <<"x">>), Token(TokenType.VAR, endtagname(e)),
   Token(TokenType.COMMENT, <<"c">>), Token(TokenType.COMMENT, endtagname(e)),
   Token(TokenType.BLOCK, <<>>), Token(TokenType.BLOCK, csrf_token),
   Token(TokenType.BLOCK, url), Token(TokenType.BLOCK, bogus_csrf),
   Token(TokenType.BLOCK, endtagname(e))}

\* the documented examples, each followed by the end tag of the entry point:
\* a{% csrf_token %}b, a{# c #}b and {{#if x}}hello{{/if}}
hello == <<"h", "e", "l", "l", "o">>
if_x == <<"#", "i", "f", " ", "x">>
end_if == <<"/", "i", "f">>

Examples(e) ==
  {<<Token(TokenType.TEXT, <<"a">>), Token(TokenType.BLOCK, csrf_token),
     Token(TokenType.TEXT, <<"b">>), Token(TokenType.BLOCK, endtagname(e))>>,
   <<Token(TokenType.TEXT, <<"a">>), Token(TokenType.COMMENT, <<"c">>),
     Token(TokenType.TEXT, <<"b">>), Token(TokenType.BLOCK, endtagname(e))>>,
   <<Token(TokenType.VAR, if_x), Token(TokenType.TEXT, hello),
     Token(TokenType.VAR, end_if), Token(TokenType.BLOCK, endtagname(e))>>}

Queues(e) == UNION {[1..n -> Tokens(e)] : n \in 0..MaxLen} \cup Examples(e)

\* the tag token of the entry point: {% verbatim %}, {% tplhandlebars %},
\* {% tplhandlebars "t" %}, {% tplhandlebars t u %}
TagTokens(e) ==
  IF e = "verbatim" THEN {Token(TokenType.BLOCK, tag_verbatim)}
  ELSE {Token(TokenType.BLOCK, tag_tplhandlebars), Token(TokenType.BLOCK, tag_tplhandlebars_t),
        Token(TokenType.BLOCK, tag_tplhandlebars_t_u)}

\* the contexts a node is rendered with
Contexts == {<<"1">>, <<"2">>}

(***************************************************************************)
(* The state machine.                                                      *)
(***************************************************************************)
VARIABLES
  entry,          \* the entry point called: "verbatim" or "tplhandlebars"
  token,          \* the tag token it was called with
  tokens,         \* parser.tokens
  text_and_nodes, \* the list verbatim_tags builds
  node,           \* the local variable node of verbatim_tags
  pc,             \* "verbatim_tags": in the loop; "return": after it; "done"
  result,         \* what the entry point returned or raised
  rendered,       \* the last render of the returned node
  queue0,         \* history: parser.tokens at entry
  trace           \* history: one record per pass of the loop

vars == <<entry, token, tokens, text_and_nodes, node, pc, result, rendered, queue0, trace>>

Init ==
  /\ entry \in {"verbatim", "tplhandlebars"}
  /\ token \in TagTokens(entry)
  /\ tokens \in Queues(entry)
  /\ queue0 = tokens
  /\ text_and_nodes = <<>>
  /\ node = Unbound
  /\ pc = "verbatim_tags"
  /\ result = [kind |-> "none"]
  /\ rendered = [done |-> FALSE]
  /\ trace = <<>>

\* one pass of the while loop of verbatim_tags
verbatim_tags ==
  /\ pc = "verbatim_tags"
  /\ \E recovered \in BOOLEAN :
       LET r == loop_body(tokens, text_and_nodes, node, endtagname(entry), recovered) IN
       /\ tokens' = r.tokens
       /\ text_and_nodes' = r.text_and_nodes
       /\ node' = r.node
       /\ pc' = CASE r.flow = "loop" -> "verbatim_tags"
                  [] r.flow = "break" -> "return"
                  [] OTHER -> "done"
       /\ result' = IF r.flow = "raise" THEN [kind |-> "error", error |-> r.error] ELSE result
       /\ trace' = Append(trace, [flow |-> r.flow, pops |-> Len(r.popped), hook_calls |-> r.hook_calls,
                                  compile_calls |-> r.compile_calls,
                                  answer |-> IF r.hook_calls > 0 THEN <<recovered>> ELSE <<>>])
  /\ UNCHANGED <<entry, token, rendered, queue0>>

\* verbatim: return VerbatimNode(text_and_nodes)
verbatim ==
  /\ pc = "return"
  /\ entry = "verbatim"
  /\ result' = verbatim_return(text_and_nodes)
  /\ pc' = "done"
  /\ UNCHANGED <<entry, token, tokens, text_and_nodes, node, rendered, queue0, trace>>

\* tplhandlebars: the template id, then return HandlebarsNode(...)
tplhandlebars ==
  /\ pc = "return"
  /\ entry = "tplhandlebars"
  /\ result' = tplhandlebars_return(token, text_and_nodes)
  /\ pc' = "done"
  /\ UNCHANGED <<entry, token, tokens, text_and_nodes, node, rendered, queue0, trace>>

\* mutant of render: the loop pops the bits off self.text_and_nodes, so the
\* node is left with an empty list
render_consuming ==
  /\ pc = "done"
  /\ result.kind = "node"
  /\ \E context \in Contexts, setting \in Settings :
       LET r == node_class_render(result.node, context, setting) IN
       rendered' = [done |-> TRUE, context |-> context, setting |-> setting,
                    output |-> r.output, calls |-> r.calls]
  /\ result' = [result EXCEPT !.node.text_and_nodes = <<>>]
  /\ UNCHANGED <<entry, token, tokens, text_and_nodes, node, pc, queue0, trace>>

\* render(context) of the returned node, under some configuration
render ==
  /\ pc = "done"
  /\ result.kind = "node"
  /\ \E context \in Contexts, setting \in Settings :
       LET r == node_class_render(result.node, context, setting) IN
       rendered' = [done |-> TRUE, context |-> context, setting |-> setting,
                    output |-> r.output, calls |-> r.calls]
  /\ UNCHANGED <<entry, token, tokens, text_and_nodes, node, pc, result, queue0, trace>>

Next == verbatim_tags \/ verbatim \/ tplhandlebars \/ render

Spec == Init /\ [][Next]_vars

\* the tag tokens of tplhandlebars with more shapes of arguments:
\* t, "ab, ab" and "a b" on top of those of TagTokens
tag_tplhandlebars_plain == <<"t", "p", "l", "h", "a", "n", "d", "l", "e", "b", "a", "r", "s", " ", "t">>
tag_tplhandlebars_open_quote == <<"t", "p", "l", "h", "a", "n", "d", "l", "e", "b", "a", "r", "s", " ", "\"", "a", "b">>
tag_tplhandlebars_close_quote == <<"t", "p", "l", "h", "a", "n", "d", "l", "e", "b", "a", "r", "s", " ", "a", "b", "\"">>
tag_tplhandlebars_quoted_space == <<"t", "p", "l", "h", "a", "n", "d", "l", "e", "b", "a", "r", "s", " ", "\"", "a", " ", "b", "\"">>

ArgTagTokens(e) ==
  IF e = "verbatim" THEN TagTokens(e)
  ELSE TagTokens(e) \cup
       {Token(TokenType.BLOCK, tag_tplhandlebars_plain),
        Token(TokenType.BLOCK, tag_tplhandlebars_open_quote),
        Token(TokenType.BLOCK, tag_tplhandlebars_close_quote),
        Token(TokenType.BLOCK, tag_tplhandlebars_quoted_space)}

ArgQueues(e) == UNION {[1..n -> Tokens(e)] : n \in 0..MaxArgLen} \cup Examples(e)

\* the entry points called with short queues and every shape of arguments
InitArgs ==
  /\ entry \in {"verbatim", "tplhandlebars"}
  /\ token \in ArgTagTokens(entry)
  /\ tokens \in ArgQueues(entry)
  /\ queue0 = tokens
  /\ text_and_nodes = <<>>
  /\ node = Unbound
  /\ pc = "verbatim_tags"
  /\ result = [kind |-> "none"]
  /\ rendered = [done |-> FALSE]
  /\ trace = <<>>

SpecArgs == InitArgs /\ [][Next]_vars

\* the interpreter keeps running the loop: a pass that can be taken is taken
LiveSpec == Spec /\ WF_vars(verbatim_tags)

(***************************************************************************)
(* What the history variables say about a run.                             *)
(***************************************************************************)
RECURSIVE pops_of(_)
pops_of(tr) == IF tr = <<>> THEN 0 ELSE tr[1].pops + pops_of(Tail(tr))

\* the tokens popped so far, in the order they were popped
consumed == SubSeq(queue0, 1, pops_of(trace))

last_pass == trace[Len(trace)]

\* verbatim_tags left its loop at the break
scan_returned == trace # <<>> /\ last_pass.flow = "break"

\* verbatim_tags raised
scan_raised == trace # <<>> /\ last_pass.flow = "raise"

\* the index of the first token whose contents equal the end tag, 0 if none
RECURSIVE first_end_from(_, _, _)
first_end_from(q, e, i) ==
  IF i > Len(q) THEN 0
  ELSE IF q[i].contents = e THEN i
  ELSE first_end_from(q, e, i + 1)

first_end(q, e) == first_end_from(q, e, 1)

(***************************************************************************)
(* C1.  Round trip.                                                        *)
(***************************************************************************)
\* the source text of TEXT and VAR tokens
RECURSIVE source_text(_)
source_text(toks) ==
  IF toks = <<>> THEN <<>>
  ELSE (IF Head(toks).token_type = TokenType.VAR
        THEN open_braces \o Head(toks).contents \o close_braces
        ELSE Head(toks).contents) \o source_text(Tail(toks))

\* q holds only TEXT and VAR tokens, followed by the closing BLOCK token
text_var_then_end(q, e) ==
  /\ Len(q) >= 1
  /\ q[Len(q)] = Token(TokenType.BLOCK, e)
  /\ \A i \in 1..(Len(q) - 1) : q[i].token_type \in {TokenType.TEXT, TokenType.VAR}

\* C1: for every queue of TEXT and VAR tokens followed by the end-tag token,
\* the render of the VerbatimNode that verbatim returns is the source text of
\* those tokens: each TEXT token's contents and "{{" + contents + "}}" for each
\* VAR token, in order.
C1_RoundTrip ==
  (entry = "verbatim" /\ rendered.done /\ text_var_then_end(queue0, endverbatim))
    => rendered.output = source_text(SubSeq(queue0, 1, Len(queue0) - 1))

\* The round trip does hold when no TEXT or VAR token has the end tag as its
\* contents (supporting invariant; the case C1 fails on is the other one).
RoundTripUpToEndTag ==
  (/\ entry = "verbatim" /\ rendered.done /\ text_var_then_end(queue0, endverbatim)
   /\ first_end(queue0, endverbatim) = Len(queue0))
    => rendered.output = source_text(SubSeq(queue0, 1, Len(queue0) - 1))

RoundTripWitness ==
  /\ entry = "verbatim" /\ rendered.done
  /\ queue0 = <<Token(TokenType.VAR, if_x), Token(TokenType.TEXT, hello),
                Token(TokenType.VAR, end_if), Token(TokenType.BLOCK, endverbatim)>>
  /\ rendered.output = <<"{", "{", "#", "i", "f", " ", "x", "}", "}", "h", "e", "l", "l", "o",
                         "{", "{", "/", "i", "f", "}", "}">>

(***************************************************************************)
(* C2.  Segment order and render.                                          *)
(***************************************************************************)
\* bits are what the tokens toks contribute, token after token: nothing for
\* the end tag, a COMMENT token or a token whose pass raised; the contents
\* for TEXT; '{{', contents, '}}' for VAR; one node for BLOCK, the node
\* compiled from that token when its compilation did not raise
RECURSIVE in_consumption_order(_, _, _, _)
in_consumption_order(bits, toks, tr, e) ==
  IF toks = <<>> THEN bits = <<>>
  ELSE LET t == Head(toks)
           p == Head(tr)
           rest(k) == in_consumption_order(SubSeq(bits, k + 1, Len(bits)), Tail(toks), Tail(tr), e)
       IN CASE t.contents = e \/ p.flow = "raise" \/ t.token_type = TokenType.COMMENT ->
                 rest(0)
            [] OTHER ->
                 CASE t.token_type = TokenType.TEXT ->
                        /\ Len(bits) >= 1
                        /\ bits[1] = [kind |-> "str", text |-> t.contents]
                        /\ rest(1)
                   [] t.token_type = TokenType.VAR ->
                        /\ Len(bits) >= 3
                        /\ bits[1] = [kind |-> "str", text |-> <<"{", "{">>]
                        /\ bits[2] = [kind |-> "str", text |-> t.contents]
                        /\ bits[3] = [kind |-> "str", text |-> <<"}", "}">>]
                        /\ rest(3)
                   [] OTHER ->
                        /\ Len(bits) >= 1
                        /\ bits[1].kind = "node"
                        /\ (p.hook_calls = 0 => bits[1].node.contents = t.contents)
                        /\ rest(1)

\* what one segment contributes to a render
bit_output(bit, context) ==
  IF bit.kind = "str" THEN bit.text ELSE node_render(bit.node, context)

RECURSIVE concat_upto(_, _)
concat_upto(f, n) == IF n = 0 THEN <<>> ELSE concat_upto(f, n - 1) \o f[n]

expected_output(bits, context) ==
  concat_upto([i \in 1..Len(bits) |-> bit_output(bits[i], context)], Len(bits))

\* one render call per node segment, in segment order, with the context given
expected_calls(bits, context) ==
  LET is_node(b) == b.kind = "node"
      nodes == SelectSeq(bits, is_node)
  IN [i \in 1..Len(nodes) |-> [node |-> nodes[i].node, context |-> context]]

a_csrf_b(e) ==
  <<Token(TokenType.TEXT, <<"a">>), Token(TokenType.BLOCK, csrf_token),
    Token(TokenType.TEXT, <<"b">>), Token(TokenType.BLOCK, e)>>

\* C2: the segments are in token consumption order, the node holds them, and
\* VerbatimNode.render returns the separator-free concatenation, in segment
\* order, of the literal segments and of the sub-nodes' render(context), each
\* sub-node segment rendered once with the context given; TEXT a, BLOCK
\* csrf_token, TEXT b, end tag renders as "a" + the tag's output + "b".
C2_OrderAndRender ==
  /\ in_consumption_order(text_and_nodes, consumed, trace, endtagname(entry))
  /\ result.kind = "node" => result.node.text_and_nodes = text_and_nodes
  /\ rendered.done =>
       /\ rendered.calls = expected_calls(text_and_nodes, rendered.context)
       /\ result.node.class = "VerbatimNode" =>
            rendered.output = expected_output(text_and_nodes, rendered.context)
       /\ (entry = "verbatim" /\ queue0 = a_csrf_b(endverbatim)) =>
            rendered.output = <<"a">> \o node_render(compile_func(queue0[2]), rendered.context)
                                \o <<"b">>

C2_Witness ==
  /\ entry = "verbatim" /\ queue0 = a_csrf_b(endverbatim)
  /\ rendered.done /\ rendered.context = <<"2">>
  /\ rendered.output
       = <<"a", "[", "c", "s", "r", "f", "_", "t", "o", "k", "e", "n", "|", "2", "]", "b">>
  /\ Len(rendered.calls) = 1

(***************************************************************************)
(* C3.  tplhandlebars and the number of its arguments.                     *)
(***************************************************************************)
\* the arguments of the tag: the pieces of the tag token after the tag name
nargs == Len(split_contents(token)) - 1

\* C3: tplhandlebars raises TemplateSyntaxError "requires exactly one
\* argument" whenever the tag has zero or more than one argument, and returns
\* a HandlebarsNode only when it has exactly one (stated where the body
\* scanned to its end tag, so that the arguments decide the outcome).
C3_ExactlyOneArgument ==
  (entry = "tplhandlebars" /\ pc = "done" /\ scan_returned) =>
    IF nargs = 1
    THEN result.kind = "node" /\ result.node.class = "HandlebarsNode"
    ELSE /\ result.kind = "error"
         /\ result.error.exc = "TemplateSyntaxError"
         /\ result.error.raised_by = "tplhandlebars"

(***************************************************************************)
(* C4.  The unterminated block.                                            *)
(***************************************************************************)
\* the last pass of the loop found the queue empty
ran_out == trace # <<>> /\ last_pass.pops = 0

\* C4: when the queue is empty before a token with the end tag as contents
\* was popped, the scan fails with a TemplateSyntaxError, not with the
\* IndexError of the pop, and no node is produced.
C4_UnterminatedIsSyntaxError ==
  ran_out => /\ result.kind = "error"
             /\ result.error.exc = "TemplateSyntaxError"

remove_comments(q, e) ==
  LET keep(t) == ~(t.token_type = TokenType.COMMENT /\ t.contents # e)
  IN SelectSeq(q, keep)

\* the answers the hook gave, in call order
RECURSIVE answers_of(_)
answers_of(tr) == IF tr = <<>> THEN <<>> ELSE tr[1].answer \o answers_of(Tail(tr))

\* what the scan of this run came to: how it ended, its list, its error
scan_outcome ==
  [flow |-> last_pass.flow,
   error |-> IF scan_raised THEN result.error ELSE [exc |-> "none"],
   text_and_nodes |-> text_and_nodes]

a_comment_b(e) ==
  <<Token(TokenType.TEXT, <<"a">>), Token(TokenType.COMMENT, <<"c">>),
    Token(TokenType.TEXT, <<"b">>), Token(TokenType.BLOCK, e)>>

\* C6: a finished scan came to what the scan of the same queue without its
\* COMMENT tokens (other than one with the end tag as contents) comes to, the
\* hook answering alike; a{# c #}b renders to "ab".
C6_CommentsDropped ==
  /\ pc # "verbatim_tags" =>
       scan_outcome = run_loop(remove_comments(queue0, endtagname(entry)), <<>>, Unbound,
                               endtagname(entry), answers_of(trace))
  /\ (entry = "verbatim" /\ queue0 = a_comment_b(endverbatim) /\ rendered.done) =>
       rendered.output = <<"a", "b">>

C6_Witness ==
  /\ entry = "verbatim" /\ queue0 = a_comment_b(endverbatim)
  /\ rendered.done /\ rendered.output = <<"a", "b">>
  /\ Len(consumed) = 4

(***************************************************************************)
(* C7.  HandlebarsNode.render.                                             *)
(***************************************************************************)
plain_head == <<"<", "s", "c", "r", "i", "p", "t", " ", "t", "y", "p", "e", "=", "\"", "t", "e", "x", "t", "/", "x", "-", "h", "a", "n", "d", "l", "e", "b", "a", "r", "s", "-", "t", "e", "m", "p", "l", "a", "t", "e", "\"", " ", "i", "d", "=", "\"">>
ember_head == <<"<", "s", "c", "r", "i", "p", "t", " ", "t", "y", "p", "e", "=", "\"", "t", "e", "x", "t", "/", "x", "-", "h", "a", "n", "d", "l", "e", "b", "a", "r", "s", "\"", " ", "d", "a", "t", "a", "-", "t", "e", "m", "p", "l", "a", "t", "e", "-", "n", "a", "m", "e", "=", "\"">>
newline_indent == <<"\n", " ", " ", " ", " ", " ", " ", " ", " ">>

\* <script type="{type}" {id_attr}="{template_id}"> for a configuration
expected_head(setting, template_id) ==
  (IF setting = "True" THEN ember_head ELSE plain_head) \o template_id \o <<"\"", ">">>

\* C7 as stated: the render of a HandlebarsNode is
\* <script type="{type}" {id_attr}="{template_id}">{body}</script>, nothing
\* else, with (id, text/x-handlebars-template) when the setting is false or
\* unset and (data-template-name, text/x-handlebars) when it is true.
C7_ScriptWrap ==
  (rendered.done /\ result.node.class = "HandlebarsNode") =>
    rendered.output
      = expected_head(rendered.setting, result.node.template_id)
          \o expected_output(text_and_nodes, rendered.context)
          \o <<"<", "/", "s", "c", "r", "i", "p", "t", ">">>

\* the render of a HandlebarsNode as the code lays it out: a newline and
\* eight spaces before the head, before the body and before </script>
expected_script(setting, template_id, body) ==
  newline_indent \o expected_head(setting, template_id) \o newline_indent \o body
    \o newline_indent \o <<"<", "/", "s", "c", "r", "i", "p", "t", ">">>

\* C7 as amended: the same with the layout of the code; and in every
\* configuration the same node renders with the same body and template_id.
C7_ScriptWrapLayout ==
  /\ (rendered.done /\ result.node.class = "HandlebarsNode") =>
       rendered.output
         = expected_script(rendered.setting, result.node.template_id,
                           expected_output(text_and_nodes, rendered.context))
  /\ (result.kind = "node" /\ result.node.class = "HandlebarsNode") =>
       \A setting \in Settings, context \in Contexts :
         HandlebarsNode_render(result.node, context, setting).output
           = expected_script(setting, result.node.template_id,
                             VerbatimNode_render(result.node, context).output)

C7_Witness ==
  /\ rendered.done /\ result.node.class = "HandlebarsNode"
  /\ queue0 = <<Token(TokenType.VAR, <<"x">>), Token(TokenType.BLOCK, endtplhandlebars)>>
  /\ rendered.setting = "True"
  /\ rendered.output
       = newline_indent \o ember_head \o <<"t", "\"", ">">> \o newline_indent
           \o <<"{", "{", "x", "}", "}">> \o newline_indent
           \o <<"<", "/", "s", "c", "r", "i", "p", "t", ">">>

(***************************************************************************)
(* C8.  Empty and unknown block tags.                                      *)
(***************************************************************************)
\* the error path a consumed BLOCK token must take: "empty_block_tag" for
\* empty contents, "invalid_block_tag" for a first word that is no registered
\* tag, "none" otherwise
error_path(t, e) ==
  IF t.token_type # TokenType.BLOCK \/ t.contents = e THEN "none"
  ELSE IF split(t.contents) = <<>> THEN "empty_block_tag"
  ELSE IF split(t.contents)[1] \notin {csrf_token, url} THEN "invalid_block_tag"
  ELSE "none"

\* C8: a popped BLOCK token, not the end tag, with empty contents makes the
\* scan fail through empty_block_tag, one whose first word is no registered
\* tag through invalid_block_tag; no compile function is called for it, the
\* scan ends there and the entry point returns no node.
C8_BadBlockRaises ==
  \A i \in 1..Len(consumed) :
    error_path(consumed[i], endtagname(entry)) # "none" =>
      /\ i = Len(consumed)
      /\ trace[i].flow = "raise"
      /\ trace[i].compile_calls = 0
      /\ pc = "done"
      /\ result = [kind |-> "error",
                   error |-> [exc |-> "TemplateSyntaxError",
                              raised_by |-> error_path(consumed[i], endtagname(entry)),
                              token |-> consumed[i]]]

C8_Witness ==
  /\ Len(consumed) = 2
  /\ consumed[1] = Token(TokenType.BLOCK, csrf_token)
  /\ consumed[2] = Token(TokenType.BLOCK, bogus_csrf)
  /\ result.kind = "error" /\ result.error.raised_by = "invalid_block_tag"

C8_WitnessEmpty ==
  /\ Len(consumed) = 1
  /\ consumed[1] = Token(TokenType.BLOCK, <<>>)
  /\ result.kind = "error" /\ result.error.raised_by = "empty_block_tag"

(***************************************************************************)
(* C9.  The recovery hook.                                                 *)
(***************************************************************************)
\* the compile function of this token raises: {% url %} without arguments
compile_raises(t) == t = Token(TokenType.BLOCK, url)

\* C9: in the pass of a token whose compile function raises a syntax error
\* the hook is called once; when it does not recover, that error, of that
\* token, is what the scan and the entry point raise, and no node is
\* returned. In no other pass is the hook called.
C9_HookOnce ==
  /\ \A i \in 1..Len(consumed) :
       IF compile_raises(consumed[i])
       THEN /\ trace[i].hook_calls = 1
            /\ trace[i].compile_calls = 1
            /\ Len(trace[i].answer) = 1
            /\ trace[i].answer = <<FALSE>> =>
                 /\ i = Len(consumed)
                 /\ trace[i].flow = "raise"
                 /\ pc = "done"
                 /\ result = [kind |-> "error",
                              error |-> [exc |-> "TemplateSyntaxError",
                                         raised_by |-> "compile_func",
                                         token |-> consumed[i]]]
       ELSE trace[i].hook_calls = 0 /\ trace[i].answer = <<>>
  /\ ran_out => last_pass.hook_calls = 0

C9_Witness ==
  /\ entry = "tplhandlebars"
  /\ Len(consumed) = 2
  /\ consumed[1] = Token(TokenType.BLOCK, csrf_token)
  /\ compile_raises(consumed[2])
  /\ last_pass.answer = <<FALSE>>
  /\ result.kind = "error" /\ result.error.raised_by = "compile_func"

(***************************************************************************)
(* C10.  Termination.                                                      *)
(***************************************************************************)
scan_bounded ==
  /\ pops_of(trace) <= Len(queue0)
  /\ Len(tokens) = Len(queue0) - pops_of(trace)
  /\ Len(trace) <= Len(queue0) + 1
  /\ \A i \in 1..Len(trace) :
       /\ trace[i].flow = "loop" => trace[i].pops = 1
       /\ trace[i].pops = 0 => (trace[i].flow = "raise" /\ i = Len(trace))
       /\ i < Len(trace) => trace[i].flow = "loop"
  /\ pc = "verbatim_tags" <=> (trace = <<>> \/ last_pass.flow = "loop")

\* a step taken inside the loop either ends the scan or leaves the queue
\* shorter: the length of the queue is a measure that every pass decreases
pass_pops_or_ends ==
  pc = "verbatim_tags" => (pc' # "verbatim_tags" \/ Len(tokens') < Len(tokens))

\* C10: the scan makes at most n pops on a queue of n tokens; every pass that
\* goes on to another pass popped a token and a pass that finds the queue
\* empty raises and ends the scan, so the scan ends, at the break or with an
\* error, after at most n + 1 passes.
C10_Terminates == []scan_bounded /\ [][pass_pops_or_ends]_vars

\* under LiveSpec the scan does end (checked with the bounds as written)
ScanEnds == <>(pc # "verbatim_tags")

C10_Witness ==
  /\ pc = "done" /\ ran_out
  /\ Len(queue0) = 3 /\ Len(trace) = 4 /\ pops_of(trace) = 3

(***************************************************************************)
(* C11.  The template id.                                                  *)
(***************************************************************************)
\* the tag's first argument, as the author wrote it
argument == split_contents(token)[2]

\* s is wrapped in a pair of double quotes
wrapped(s) == Len(s) >= 2 /\ s[1] = "\"" /\ s[Len(s)] = "\""

\* the identifier the author meant: what is between the pair of double
\* quotes, or the argument itself when it is not wrapped
identifier(s) == IF wrapped(s) THEN [i \in 1..(Len(s) - 2) |-> s[i + 1]] ELSE s

\* C11: the template_id of the HandlebarsNode that tplhandlebars builds is the
\* tag's single argument without its surrounding pair of double quotes when
\* it is wrapped in one, and the argument unchanged otherwise: no character of
\* the identifier is dropped.
C11_TemplateId ==
  (entry = "tplhandlebars" /\ result.kind = "node" /\ nargs = 1) =>
    result.node.template_id = identifier(argument)

\* The template id is as claimed for an argument that is wrapped in a pair of
\* double quotes or does not start with one (supporting invariant).
TemplateIdWrappedOrPlain ==
  (/\ entry = "tplhandlebars" /\ result.kind = "node" /\ nargs = 1
   /\ (wrapped(argument) \/ argument[1] # "\"")) =>
    result.node.template_id = identifier(argument)

TemplateIdWitness ==
  /\ entry = "tplhandlebars" /\ result.kind = "node"
  /\ token.contents = tag_tplhandlebars_quoted_space
  /\ result.node.template_id = <<"a", " ", "b">>

(***************************************************************************)
(* C12.  What closes the scan.                                             *)
(***************************************************************************)
\* a popped token with the end tag as contents is the last one popped, and
\* its pass left at the break without a compile or a hook call
closed_by_contents ==
  /\ \A i \in 1..Len(consumed) :
       consumed[i].contents = endtagname(entry) =>
         /\ i = Len(consumed)
         /\ trace[i].flow = "break"
         /\ trace[i].compile_calls = 0 /\ trace[i].hook_calls = 0
  /\ scan_returned => consumed[Len(consumed)].contents = endtagname(entry)

\* the pass that pops a token with the end tag as contents, of any type,
\* ends the scan and appends nothing
end_pass_appends_nothing ==
  (pc = "verbatim_tags" /\ tokens # <<>> /\ Head(tokens).contents = endtagname(entry)) =>
    /\ pc' = "return"
    /\ tokens' = Tail(tokens)
    /\ text_and_nodes' = text_and_nodes
    /\ result' = result

\* C12: the scan stops at the first popped token whose contents equal the end
\* tag, whatever its type: a TEXT, VAR or COMMENT token with these contents
\* ends the scan and adds no segment, as the closing BLOCK token does.
C12_ClosedByContents == []closed_by_contents /\ [][end_pass_appends_nothing]_vars

\* a TEXT token closed the scan after one TEXT token was appended
C12_Witness ==
  /\ scan_returned
  /\ consumed = <<Token(TokenType.TEXT, <<"a">>), Token(TokenType.TEXT, endtagname(entry))>>
  /\ text_and_nodes = <<[kind |-> "str", text |-> <<"a">>]>>
  /\ Len(tokens) = 1

\* likewise a VAR token and a COMMENT token
ClosedByVarWitness ==
  /\ scan_returned
  /\ consumed = <<Token(TokenType.TEXT, <<"a">>), Token(TokenType.VAR, endtagname(entry))>>
  /\ text_and_nodes = <<[kind |-> "str", text |-> <<"a">>]>>

ClosedByCommentWitness ==
  /\ scan_returned
  /\ consumed = <<Token(TokenType.TEXT, <<"a">>), Token(TokenType.COMMENT, endtagname(entry))>>
  /\ text_and_nodes = <<[kind |-> "str", text |-> <<"a">>]>>

(***************************************************************************)
(* C13.  The compiled-node segments.                                       *)
(***************************************************************************)
\* the passes so far in which a compile function returned a node
RECURSIVE compiled_in(_)
compiled_in(tr) ==
  IF tr = <<>> THEN 0
  ELSE (IF tr[1].compile_calls = 1 /\ tr[1].hook_calls = 0 THEN 1 ELSE 0)
         + compiled_in(Tail(tr))

node_segments(bits) == LET is_node(b) == b.kind = "node" IN SelectSeq(bits, is_node)

\* C13: every node segment is the node compiled for the BLOCK token consumed
\* at its place; a BLOCK token whose syntax error the hook suppressed adds no
\* segment, neither a node compiled for an earlier token nor a failure on the
\* unset variable, so there are as many node segments as BLOCK tokens
\* compiled.
C13_NodesCompiledInPlace ==
  /\ Len(node_segments(text_and_nodes)) = compiled_in(trace)
  /\ result.kind = "error" => result.error.exc # "UnboundLocalError"

\* the hook suppressed the error of {% url %} after {% csrf_token %} was
\* compiled: the csrf_token node is in the list twice
StaleNodeWitness ==
  /\ scan_returned
  /\ Len(consumed) = 3
  /\ consumed[1] = Token(TokenType.BLOCK, csrf_token)
  /\ consumed[2] = Token(TokenType.BLOCK, url)
  /\ trace[2].answer = <<TRUE>>
  /\ text_and_nodes = <<[kind |-> "node", node |-> compile_func(consumed[1])],
                        [kind |-> "node", node |-> compile_func(consumed[1])]>>

(***************************************************************************)
(* C14.  Renders leave the node as it is.                                  *)
(***************************************************************************)
\* what a render of the node built from the scanned list must return
expected_render(context, setting) ==
  IF result.node.class = "HandlebarsNode"
  THEN expected_script(setting, result.node.template_id,
                       expected_output(text_and_nodes, context))
  ELSE expected_output(text_and_nodes, context)

\* every render, whatever renders came before, returns what the list built
\* by the scan gives for its context and configuration
render_of_built_node ==
  rendered.done => rendered.output = expected_render(rendered.context, rendered.setting)

\* a step leaves a node that was returned as it is, segments and template_id
node_unchanged == result.kind = "node" => result' = result

\* a render after a render, with the same context and configuration, returns
\* the same string
same_render_again ==
  (/\ rendered.done /\ rendered'.done
   /\ rendered'.context = rendered.context /\ rendered'.setting = rendered.setting)
    => rendered'.output = rendered.output

\* C14: render changes neither the segments nor the template_id of the node,
\* so after any renders with any contexts a render with a given context
\* returns what the first render with that context returns (under one
\* configuration, the sub-nodes being functions of the context).
C14_RenderKeepsNode ==
  /\ []render_of_built_node
  /\ [][node_unchanged /\ same_render_again]_vars

\* a HandlebarsNode with a sub-node, rendered with the second context
C14_Witness ==
  /\ rendered.done /\ rendered.context = <<"2">>
  /\ result.node.class = "HandlebarsNode"
  /\ Len(node_segments(result.node.text_and_nodes)) = 1
  /\ Len(result.node.text_and_nodes) = 2
  /\ rendered.output = expected_render(<<"2">>, rendered.setting)

(***************************************************************************)
(* C15.  When the argument error is raised.                                *)
(***************************************************************************)
requires_exactly_one == <<"t", "p", "l", "h", "a", "n", "d", "l", "e", "b", "a", "r", "s", " ", "t", "a", "g", " ", "r", "e", "q", "u", "i", "r", "e", "s", " ", "e", "x", "a", "c", "t", "l", "y", " ", "o", "n", "e", " ", "a", "r", "g", "u", "m", "e", "n", "t">>

\* C15: tplhandlebars raises the argument error before it scans the body:
\* with a wrong number of arguments the "requires exactly one argument"
\* syntax error is the outcome for every queue, one without an end tag or
\* with an unknown nested tag included, and the queue is then as it was at
\* entry.
C15_ArgumentErrorFirst ==
  (entry = "tplhandlebars" /\ nargs # 1 /\ pc = "done") =>
    /\ result.kind = "error"
    /\ result.error.exc = "TemplateSyntaxError"
    /\ result.error.raised_by = "tplhandlebars"
    /\ result.error.msg = requires_exactly_one
    /\ tokens = queue0

\* what the code does with no argument: the body is scanned first, so the
\* argument error comes only when the scan returned, the queue drained up to
\* the end tag, and otherwise the error of the scan is the outcome
ArgumentErrorAfterScan ==
  (entry = "tplhandlebars" /\ nargs = 0 /\ pc = "done") =>
    /\ result.kind = "error"
    /\ IF scan_returned
       THEN /\ result.error.raised_by = "tplhandlebars"
            /\ result.error.msg = requires_exactly_one
            /\ tokens = SubSeq(queue0, first_end(queue0, endtplhandlebars) + 1, Len(queue0))
       ELSE result.error.raised_by # "tplhandlebars"

ArgumentErrorAfterScanWitness ==
  /\ entry = "tplhandlebars" /\ nargs = 0 /\ pc = "done" /\ scan_returned
  /\ result.kind = "error" /\ result.error.msg = requires_exactly_one
  /\ Len(consumed) = 2 /\ Len(tokens) = 1

=============================================================================
